---- MODULE Spec2Model ----
(***************************************************************************)
(* Model of the water-network simulator: the live pressure/flow solver     *)
(* calculateFluidDynamics of the WaterSimulation component, the interval   *)
(* tick that calls it, and the store reducers the tick dispatches to.      *)
(*                                                                         *)
(* Numbers.  The code computes in IEEE doubles; the model computes in      *)
(* fixed point:                                                            *)
(*   - a pressure value p stands for p * 10^-4 bar (100 bar = 1000000),    *)
(*     every product with a drop factor is rounded to the nearest unit;    *)
(*   - a diameter is a whole number of metres;                             *)
(*   - a flow rate value f stands for f * (pi/8) * 10^-4 m^3/s, so that    *)
(*     pressureDiff / (8 / (pi * d^4)) is the integer pressureDiff * d^4.  *)
(* Node ids and edge ids are small integers standing for the uuid strings. *)
(* The doubles Infinity, -Infinity and NaN are three integers outside the   *)
(* range of the finite values; the arithmetic operators below treat them   *)
(* as IEEE 754 does.                                                       *)
(***************************************************************************)
EXTENDS Integers, Sequences, FiniteSets, TLC

\* ------------------------------------------------------------------ bounds
MaxEdges == 3        \* longest edge list drawn by Init
MaxCalls == 3        \* solver invocations (ticks) followed in one behaviour
MaxNonFiniteEdges == 1   \* longest edge list given with non-finite pressures
MaxGestures == 5     \* actions of the user followed in one behaviour

\* ------------------------------------------------------- program constants
MAX_ITERATIONS == 10
ConvergenceThreshold == 100     \* 0.01 bar
ValveNum == 19                  \* 1 - pressureDrop      = 0.95  = 19/20
ValveDen == 20
JunctionNum == 39               \* 1 - pressureDrop / 2  = 0.975 = 39/40
JunctionDen == 40
Bar == 10000                    \* model units per bar

\* ------------------------------------------------------ non-finite doubles
Infinity == 2000000000
NegInfinity == -2000000000
NaN == 1999999999

\* ------------------------------------------------------------- input sets
NodeTypes == {"reservoir", "valve", "junction"}
ReservoirPressures == {0, 50, 100 * Bar}   \* 0, 0.005 and 100 bar
Diameters == {1, 2}
NodeIds == {1, 2, 3}

VARIABLES
  nodes,              \* store: state.simulation.network.nodes
  edges,              \* store: state.simulation.network.edges
  pc,                 \* position of the interval callback / solver
  pressures,          \* solver local
  flowRates,          \* solver local
  previousPressures,  \* solver local
  nodeConnections,    \* solver local
  iteration,          \* solver loop counter
  idx,                \* position of nodes.forEach in the propagation step
  passes,             \* passes of the loop begun in the current invocation
  calls,              \* completed invocations
  snapshot,           \* the (nodes, edges) the current invocation was given
  result,             \* value returned by the current invocation
  prevSnapshot,       \* arguments of the previous invocation
  prevResult,         \* value returned by the previous invocation
  isSimulationRunning,   \* store: state.simulation.isSimulationRunning
  selectedNodeId,        \* WaterSimulation state (0 for null)
  selectedNodeType,      \* WaterSimulation state ("null" for null)
  isConnectionMode,      \* WaterSimulation state
  isPressureDialogOpen,  \* WaterSimulation state
  selectedEdgeId,        \* WaterSimulation state (0 for null)
  diameterValue,         \* WaterSimulation state: text of the edge controls
  isDiameterDialogOpen,  \* WaterSimulation state
  pressureText,          \* PressureDialog state `pressure`
  pressureError,         \* PressureDialog state `error` ("null" for null)
  diameterText,          \* DiameterDialog state `diameter`
  diameterError,         \* DiameterDialog state `error` ("null" for null)
  simulationIntervals,   \* intervals set by the simulation effect and not
                         \* cleared yet
  uuids,                 \* ids handed out by uuidv4 so far
  gestures               \* actions of the user so far

solverVars == <<pressures, flowRates, previousPressures, nodeConnections,
                iteration, idx, passes>>
historyVars == <<calls, snapshot, result, prevSnapshot, prevResult>>
componentVars == <<selectedNodeId, selectedNodeType, isConnectionMode,
                   isPressureDialogOpen, selectedEdgeId, diameterValue,
                   isDiameterDialogOpen>>
dialogVars == <<pressureText, pressureError, diameterText, diameterError>>
appVars == <<isSimulationRunning, componentVars, dialogVars,
            simulationIntervals, uuids, gestures>>
vars == <<nodes, edges, pc, solverVars, historyVars, appVars>>

\* ---------------------------------------------------------------- helpers
Abs(x) == IF x < 0 THEN -x ELSE x

Max(a, b) == IF a > b THEN a ELSE b

IsFinite(x) == x \notin {Infinity, NegInfinity, NaN}

\* the operators below bind their operands to x and y, so that an operand
\* is evaluated once, as an operand of the machine operation is

\* unary minus of a double
Neg(a) ==
  CHOOSE r \in {CASE x = NaN -> NaN
                  [] x = Infinity -> NegInfinity
                  [] x = NegInfinity -> Infinity
                  [] OTHER -> -x : x \in {a}} : TRUE

\* a + b of doubles
Plus(a, b) ==
  CHOOSE r \in
    {CASE x = NaN \/ y = NaN -> NaN
       [] x = Infinity -> IF y = NegInfinity THEN NaN ELSE Infinity
       [] x = NegInfinity -> IF y = Infinity THEN NaN ELSE NegInfinity
       [] ~IsFinite(y) -> y
       [] OTHER -> x + y : x \in {a}, y \in {b}} : TRUE

\* a - b of doubles
Minus(a, b) == Plus(a, Neg(b))

\* a > b and a < b of doubles: false when either side is NaN
Gt(a, b) == \E x \in {a}, y \in {b} : x # NaN /\ y # NaN /\ x > y

Lt(a, b) == \E x \in {a}, y \in {b} : x # NaN /\ y # NaN /\ x < y

\* Math.max(a, b): NaN when either argument is NaN
MathMax(a, b) ==
  CHOOSE r \in
    {IF x = NaN \/ y = NaN THEN NaN ELSE IF x > y THEN x ELSE y :
       x \in {a}, y \in {b}} : TRUE

\* Math.abs(a)
MathAbs(a) ==
  CHOOSE r \in {CASE x = NaN -> NaN
                  [] x \in {Infinity, NegInfinity} -> Infinity
                  [] OTHER -> Abs(x) : x \in {a}} : TRUE

\* nodes.find(n => n.id === id): index of the first match, 0 for undefined
find(ns, id) ==
  IF \E i \in 1..Len(ns) : ns[i].id = id
  THEN CHOOSE i \in 1..Len(ns) :
         ns[i].id = id /\ \A j \in 1..(i - 1) : ns[j].id # id
  ELSE 0

IdsOf(ns) == {ns[i].id : i \in 1..Len(ns)}

\* mutant: every node with isOpen = false closes its edges
IsClosedValve_AnyType(n) == ~n.isOpen

IsClosedValve(n) == n.type = "valve" /\ ~n.isOpen

\* mutant: every node is seeded with the pressure field of the store
SeedPressures_FromStore(ns) ==
  [id \in IdsOf(ns) |->
     LET i == CHOOSE k \in 1..Len(ns) :
                ns[k].id = id /\ \A j \in (k + 1)..Len(ns) : ns[j].id # id
     IN ns[i].pressure]

\* Step 1: pressures seeded from reservoirs only
SeedPressures(ns) ==
  [id \in IdsOf(ns) |->
     LET i == CHOOSE k \in 1..Len(ns) :
                ns[k].id = id /\ \A j \in (k + 1)..Len(ns) : ns[j].id # id
     IN IF ns[i].type = "reservoir" THEN ns[i].pressure ELSE 0]

\* mutant: only the source end of an edge lists the other end
AddConnection_OneWay(ns, e, conns) ==
  LET s == find(ns, e.sourceId)
      t == find(ns, e.targetId)
  IN IF s = 0 \/ t = 0 THEN conns
     ELSE IF IsClosedValve(ns[s]) \/ IsClosedValve(ns[t]) THEN conns
     ELSE [conns EXCEPT ![ns[s].id] = Append(@, ns[t].id)]

\* mutant: the closed-valve test of the connection graph is left out
AddConnection_IgnoreValve(ns, e, conns) ==
  LET s == find(ns, e.sourceId)
      t == find(ns, e.targetId)
  IN IF s = 0 \/ t = 0 THEN conns
     ELSE LET c1 == [conns EXCEPT ![ns[s].id] = Append(@, ns[t].id)]
          IN [c1 EXCEPT ![ns[t].id] = Append(@, ns[s].id)]

\* body of edges.forEach building nodeConnections, for one edge
AddConnection(ns, e, conns) ==
  LET s == find(ns, e.sourceId)
      t == find(ns, e.targetId)
  IN IF s = 0 \/ t = 0 THEN conns
     ELSE IF IsClosedValve(ns[s]) \/ IsClosedValve(ns[t]) THEN conns
     ELSE LET c1 == [conns EXCEPT ![ns[s].id] = Append(@, ns[t].id)]
          IN [c1 EXCEPT ![ns[t].id] = Append(@, ns[s].id)]

\* the recursions below bind each intermediate value (c, q, f, a, pass) to a
\* name before the next step uses it, as the assignment to a variable of
\* the code does
RECURSIVE BuildConnections(_, _, _, _)
BuildConnections(ns, es, k, conns) ==
  IF k > Len(es) THEN conns
  ELSE CHOOSE r \in {BuildConnections(ns, es, k + 1, c) :
                       c \in {AddConnection(ns, es[k], conns)}} : TRUE

EmptyConnections(ns) == [id \in IdsOf(ns) |-> <<>>]

Connections(ns, es) == BuildConnections(ns, es, 1, EmptyConnections(ns))

\* mutant: a connected node of pressure 0 is counted as well
RECURSIVE Accumulate_CountZero(_, _, _, _)
Accumulate_CountZero(connections, p, k, acc) ==
  IF k > Len(connections) THEN acc
  ELSE LET connectedPressure == p[connections[k]]
       IN CHOOSE r \in
            {Accumulate_CountZero(connections, p, k + 1, a) :
               a \in {[totalPressure |->
                         Plus(acc.totalPressure, connectedPressure),
                       pressureCount |-> acc.pressureCount + 1,
                       maxPressure   |->
                         MathMax(acc.maxPressure, connectedPressure)]}} :
            TRUE

\* connections.forEach accumulating totalPressure / pressureCount / maxPressure
RECURSIVE Accumulate(_, _, _, _)
Accumulate(connections, p, k, acc) ==
  IF k > Len(connections) THEN acc
  ELSE LET connectedPressure == p[connections[k]]
       IN IF Gt(connectedPressure, 0)
          THEN CHOOSE r \in
                 {Accumulate(connections, p, k + 1, a) :
                    a \in {[totalPressure |->
                              Plus(acc.totalPressure, connectedPressure),
                            pressureCount |-> acc.pressureCount + 1,
                            maxPressure   |->
                              MathMax(acc.maxPressure, connectedPressure)]}} :
                 TRUE
          ELSE Accumulate(connections, p, k + 1, acc)

\* mutant: an open valve takes the highest neighbour pressure without a drop
ValvePressure_NoDrop(maxPressure) == maxPressure

\* maxPressure * (1 - pressureDrop), rounded to the nearest unit
ValvePressure(maxPressure) ==
  IF maxPressure = Infinity THEN Infinity
  ELSE (maxPressure * ValveNum + ValveDen \div 2) \div ValveDen

\* mutant: a junction takes the mean of its neighbours without a drop
JunctionPressure_NoDrop(totalPressure, pressureCount) ==
  IF totalPressure = Infinity THEN Infinity
  ELSE (2 * totalPressure + pressureCount) \div (2 * pressureCount)

\* mutant: a junction applies the full pressureDrop instead of half of it
JunctionPressure_FullDrop(totalPressure, pressureCount) ==
  IF totalPressure = Infinity THEN Infinity
  ELSE (totalPressure * ValveNum + (ValveDen \div 2) * pressureCount)
          \div (ValveDen * pressureCount)

\* (totalPressure / pressureCount) * (1 - pressureDrop/2), rounded once
JunctionPressure(totalPressure, pressureCount) ==
  IF totalPressure = Infinity THEN Infinity
  ELSE (totalPressure * JunctionNum + (JunctionDen \div 2) * pressureCount)
          \div (JunctionDen * pressureCount)

\* mutant: reservoirs are not skipped by the propagation step
PropagateNode_UpdateReservoir(ns, i, conns, p) ==
  LET node == ns[i]
      connections == conns[node.id]
      acc == Accumulate(connections, p, 1,
               [totalPressure |-> 0, pressureCount |-> 0, maxPressure |-> 0])
  IN IF Len(connections) = 0 THEN p
     ELSE IF acc.pressureCount > 0
          THEN IF node.type = "valve" /\ node.isOpen
               THEN [p EXCEPT ![node.id] = ValvePressure(acc.maxPressure)]
               ELSE [p EXCEPT ![node.id] =
                       JunctionPressure(acc.totalPressure, acc.pressureCount)]
          ELSE p

\* body of nodes.forEach in the propagation step, for the node at index i
PropagateNode(ns, i, conns, p) ==
  LET node == ns[i]
      connections == conns[node.id]
      acc == Accumulate(connections, p, 1,
               [totalPressure |-> 0, pressureCount |-> 0, maxPressure |-> 0])
  IN IF node.type = "reservoir" THEN p
     ELSE IF Len(connections) = 0 THEN p
     ELSE IF acc.pressureCount > 0
          THEN IF node.type = "valve" /\ node.isOpen
               THEN [p EXCEPT ![node.id] = ValvePressure(acc.maxPressure)]
               ELSE [p EXCEPT ![node.id] =
                       JunctionPressure(acc.totalPressure, acc.pressureCount)]
          ELSE p

RECURSIVE PropagateFrom(_, _, _, _)
PropagateFrom(ns, i, conns, p) ==
  IF i > Len(ns) THEN p
  ELSE CHOOSE r \in {PropagateFrom(ns, i + 1, conns, q) :
                       q \in {PropagateNode(ns, i, conns, p)}} : TRUE

\* flowRates[id] = v on a Record
Put(f, id, v) == [x \in DOMAIN f \cup {id} |-> IF x = id THEN v ELSE f[x]]

\* pressureDiff / (8 / (pi * diameter^4)) in units of pi/8; the resistance
\* of diameter 0 is Infinity, and Infinity / Infinity is NaN
FlowRate(pressureDiff, diameter) ==
  CASE pressureDiff = NaN -> NaN
    [] ~IsFinite(pressureDiff) -> IF diameter = 0 THEN NaN ELSE pressureDiff
    [] OTHER -> pressureDiff * (diameter * diameter * diameter * diameter)

\* mutant: the closed-valve test of the flow calculation is left out
EdgeFlowRate_IgnoreValve(ns, e, p) ==
  LET s == find(ns, e.sourceId)
      t == find(ns, e.targetId)
  IN IF s = 0 \/ t = 0 THEN 0
     ELSE FlowRate(Minus(p[ns[s].id], p[ns[t].id]), e.diameter)

\* mutant: a missing endpoint is taken for a node of pressure 0
EdgeFlowRate_MissingAsZero(ns, e, p) ==
  LET s == find(ns, e.sourceId)
      t == find(ns, e.targetId)
      ps == IF s = 0 THEN 0 ELSE p[ns[s].id]
      pt == IF t = 0 THEN 0 ELSE p[ns[t].id]
  IN IF (s # 0 /\ IsClosedValve(ns[s])) \/ (t # 0 /\ IsClosedValve(ns[t]))
     THEN 0
     ELSE FlowRate(Minus(ps, pt), e.diameter)

\* body of edges.forEach computing the flow rates, for one edge
EdgeFlowRate(ns, e, p) ==
  LET s == find(ns, e.sourceId)
      t == find(ns, e.targetId)
  IN IF s = 0 \/ t = 0 THEN 0
     ELSE IF IsClosedValve(ns[s]) \/ IsClosedValve(ns[t]) THEN 0
     ELSE FlowRate(Minus(p[ns[s].id], p[ns[t].id]), e.diameter)

\* mutant: an edge with a missing endpoint gets no entry
RECURSIVE CalculateFlowRates_SkipMissing(_, _, _, _, _)
CalculateFlowRates_SkipMissing(ns, es, p, k, fr) ==
  IF k > Len(es) THEN fr
  ELSE IF find(ns, es[k].sourceId) = 0 \/ find(ns, es[k].targetId) = 0
  THEN CalculateFlowRates_SkipMissing(ns, es, p, k + 1, fr)
  ELSE CHOOSE r \in {CalculateFlowRates_SkipMissing(ns, es, p, k + 1, f) :
                       f \in {Put(fr, es[k].id, EdgeFlowRate(ns, es[k], p))}} :
         TRUE

\* edges.forEach of the flow calculation: one entry is written for every edge
RECURSIVE CalculateFlowRates(_, _, _, _, _)
CalculateFlowRates(ns, es, p, k, fr) ==
  IF k > Len(es) THEN fr
  ELSE CHOOSE r \in {CalculateFlowRates(ns, es, p, k + 1, f) :
                       f \in {Put(fr, es[k].id, EdgeFlowRate(ns, es[k], p))}} :
         TRUE

\* mutant: maxChange is raised by `if (change > maxChange)`, which a NaN
\* change never passes
RECURSIVE MaxOver_SkipNaN(_, _, _)
MaxOver_SkipNaN(ids, p, prev) ==
  IF ids = {} THEN 0
  ELSE LET id == CHOOSE x \in ids : TRUE
           rest == MaxOver_SkipNaN(ids \ {id}, p, prev)
           change == MathAbs(Minus(p[id], prev[id]))
       IN IF Gt(change, rest) THEN change ELSE rest

RECURSIVE MaxOver(_, _, _)
MaxOver(ids, p, prev) ==
  IF ids = {} THEN 0
  ELSE LET id == CHOOSE x \in ids : TRUE
       IN MathMax(MaxOver(ids \ {id}, p, prev),
                  MathAbs(Minus(p[id], prev[id])))

\* maxChange of the convergence check
MaxChange(p, prev) == MaxOver(DOMAIN p, p, prev)

\* mutant: the comparison of the convergence test is inverted
Converged_Inverted(p, prev) ==
  MaxChange(p, prev) # NaN /\ MaxChange(p, prev) >= ConvergenceThreshold

\* maxChange < 0.01
Converged(p, prev) == Lt(MaxChange(p, prev), ConvergenceThreshold)

\* the for loop as a function: the state after the loop, from pass `it` on
RECURSIVE Loop(_, _, _, _, _)
Loop(ns, es, it, p, fr) ==
  IF it >= MAX_ITERATIONS
  THEN [flowRates |-> fr, pressures |-> p, passes |-> it]
  ELSE CHOOSE r \in
         {IF Converged(pass.pressures, p)
          THEN [flowRates |-> pass.flowRates, pressures |-> pass.pressures,
                passes |-> it + 1]
          ELSE Loop(ns, es, it + 1, pass.pressures, pass.flowRates) :
            pass \in
              {[pressures |-> p2,
                flowRates |-> CalculateFlowRates(ns, es, p2, 1, fr)] :
                 p2 \in {PropagateFrom(ns, 1, conns, p) :
                           conns \in {Connections(ns, es)}}}} :
         TRUE

EmptyRecord == [x \in {} |-> 0]

calculateFluidDynamics(ns, es) ==
  CHOOSE out \in {[flowRates |-> r.flowRates, pressures |-> r.pressures] :
                    r \in {Loop(ns, es, 0, SeedPressures(ns), EmptyRecord)}} :
    TRUE

\* mutant: updateFlowRates leaves every flowRate as it was
updateFlowRates_Keep(es, payload) == es

\* reducer updateFlowRates
updateFlowRates(es, payload) ==
  [k \in 1..Len(es) |->
     IF es[k].id \in DOMAIN payload
     THEN [es[k] EXCEPT !.flowRate = payload[es[k].id]]
     ELSE es[k]]

\* mutant: updatePressures writes the whole node and reopens its valve
updatePressures_Reopen(ns, payload) ==
  [i \in 1..Len(ns) |->
     IF ns[i].id \in DOMAIN payload
     THEN [ns[i] EXCEPT !.pressure = payload[ns[i].id], !.isOpen = TRUE]
     ELSE ns[i]]

\* reducer updatePressures
updatePressures(ns, payload) ==
  [i \in 1..Len(ns) |->
     IF ns[i].id \in DOMAIN payload
     THEN [ns[i] EXCEPT !.pressure = payload[ns[i].id]]
     ELSE ns[i]]

\* ------------------------------------------------------------ input space
NodeRecordsOf(id, P) ==
  {[id |-> id, type |-> "reservoir", pressure |-> p, isOpen |-> TRUE] :
      p \in P}
  \cup {[id |-> id, type |-> "valve", pressure |-> 0, isOpen |-> o] :
      o \in BOOLEAN}
  \cup {[id |-> id, type |-> "junction", pressure |-> 0, isOpen |-> TRUE]}

NodeRecords(id) == NodeRecordsOf(id, ReservoirPressures)

\* node lists whose reservoirs take their pressure from P
NodeListsOf(P) ==
  UNION {{ns \in [1..n -> UNION {NodeRecordsOf(id, P) : id \in NodeIds}] :
            \A i \in 1..n : ns[i].id = i} : n \in 0..Cardinality(NodeIds)}

NodeLists == NodeListsOf(ReservoirPressures)

\* node lists whose nodes of every type carry either value of isOpen, as the
\* addNode reducer accepts them; the reservoirs hold 100 bar
AnyFlagNodeLists ==
  UNION {{ns \in [1..n -> [id : NodeIds, type : NodeTypes,
                           pressure : {0, 100 * Bar}, isOpen : BOOLEAN]] :
            \A i \in 1..n :
              /\ ns[i].id = i
              /\ ns[i].pressure = 100 * Bar <=> ns[i].type = "reservoir"} :
         n \in 0..Cardinality(NodeIds)}

\* reservoir pressures the reducers accept that are no finite number
NonFinitePressures == {Infinity, NaN}

EndPoints == {<<s, t>> \in NodeIds \X NodeIds : s # t}

EdgeRecords(id, d) ==
  {[id |-> id, sourceId |-> st[1], targetId |-> st[2], flowRate |-> 0,
    diameter |-> d] : st \in EndPoints}

\* position of an endpoint pair in a fixed enumeration of the pairs
PairRank(e) == e.sourceId * (Cardinality(NodeIds) + 1) + e.targetId

\* edge lists of at most M edges of one diameter drawn from D, as the store
\* can hold them: handleNodeClick adds an edge only between two nodes that no
\* edge joins yet in either direction, so no two edges of a list join the
\* same pair of nodes
EdgeListsUpTo(D, M) ==
  UNION {{es \in [1..m -> UNION {EdgeRecords(id, d) : id \in 1..M}] :
            /\ \A k \in 1..m : es[k].id = k
            /\ \A k \in 1..(m - 1) : PairRank(es[k]) < PairRank(es[k + 1])
            /\ \A k \in 1..m : \A l \in (k + 1)..m :
                 {es[k].sourceId, es[k].targetId}
                   # {es[l].sourceId, es[l].targetId}} :
         m \in 0..M, d \in D}

EdgeListsOf(D) == EdgeListsUpTo(D, MaxEdges)

EdgeLists == EdgeListsOf(Diameters)

\* diameters the editor's dialog rejects but the reducer and the solver accept
NonPositiveDiameters == {-1, 0}

NoResult == [flowRates |-> EmptyRecord, pressures |-> EmptyRecord]
NoSnapshot == [nodes |-> <<>>, edges |-> <<>>]

\* ------------------------------------------------------------------- Init
\* useState defaults of WaterSimulation; the dialogs are not mounted
ComponentInit ==
  /\ selectedNodeId = 0
  /\ selectedNodeType = "null"
  /\ isConnectionMode = FALSE
  /\ isPressureDialogOpen = FALSE
  /\ selectedEdgeId = 0
  /\ diameterValue = "1"
  /\ isDiameterDialogOpen = FALSE
  /\ pressureText = ""
  /\ pressureError = "null"
  /\ diameterText = ""
  /\ diameterError = "null"
  /\ uuids = 0
  /\ gestures = 0

\* no invocation of the solver has begun
SolverIdle ==
  /\ pc = "idle"
  /\ pressures = EmptyRecord
  /\ flowRates = EmptyRecord
  /\ previousPressures = EmptyRecord
  /\ nodeConnections = EmptyRecord
  /\ iteration = 0
  /\ idx = 0
  /\ passes = 0
  /\ calls = 0
  /\ snapshot = NoSnapshot
  /\ result = NoResult
  /\ prevSnapshot = NoSnapshot
  /\ prevResult = NoResult

\* the simulation effect has run after the first render: its interval is
\* set if the simulation runs
EffectRan == simulationIntervals = IF isSimulationRunning THEN 1 ELSE 0

\* the interval callback is about to run on a store that holds NS and ES
InitWith(NS, ES) ==
  /\ nodes \in NS
  /\ edges \in ES
  /\ isSimulationRunning = TRUE
  /\ EffectRan
  /\ ComponentInit
  /\ SolverIdle

Init == InitWith(NodeLists, EdgeLists)

\* the solver given nodes of every type with isOpen = false
InitAnyFlags == InitWith(AnyFlagNodeLists, EdgeLists)

\* the solver given pipes of a diameter <= 0
InitNonPositive == InitWith(NodeLists, EdgeListsOf(NonPositiveDiameters))

\* the solver given reservoirs of a non-finite pressure
InitNonFinite ==
  InitWith(NodeListsOf(NonFinitePressures),
           EdgeListsUpTo({1}, MaxNonFiniteEdges))

\* ---------------------------------------------------------------- actions
\* mutant: the loop counter lives outside the function and is not reset
Seed_KeepIteration ==
  /\ pc = "idle"
  /\ calls < MaxCalls
  /\ pressures' = SeedPressures(nodes)
  /\ flowRates' = EmptyRecord
  /\ previousPressures' = EmptyRecord
  /\ nodeConnections' = EmptyRecord
  /\ iteration' = iteration
  /\ idx' = 0
  /\ passes' = 0
  /\ snapshot' = [nodes |-> nodes, edges |-> edges]
  /\ prevSnapshot' = snapshot
  /\ prevResult' = result
  /\ pc' = "loop"
  /\ UNCHANGED <<nodes, edges, calls, result, appVars>>

\* the interval callback calls the solver: maps created, pressures seeded
Seed ==
  /\ pc = "idle"
  /\ calls < MaxCalls
  /\ pressures' = SeedPressures(nodes)
  /\ flowRates' = EmptyRecord
  /\ previousPressures' = EmptyRecord
  /\ nodeConnections' = EmptyRecord
  /\ iteration' = 0
  /\ idx' = 0
  /\ passes' = 0
  /\ snapshot' = [nodes |-> nodes, edges |-> edges]
  /\ prevSnapshot' = snapshot
  /\ prevResult' = result
  /\ pc' = "loop"
  /\ UNCHANGED <<nodes, edges, calls, result, appVars>>

\* mutant: the loop test is iteration <= MAX_ITERATIONS
BeginPass_OffByOne ==
  /\ pc = "loop"
  /\ iteration <= MAX_ITERATIONS
  /\ previousPressures' = pressures
  /\ nodeConnections' = Connections(nodes, edges)
  /\ idx' = 1
  /\ passes' = passes + 1
  /\ pc' = "propagate"
  /\ UNCHANGED <<nodes, edges, pressures, flowRates, iteration, historyVars,
                 appVars>>

\* loop test passes: copy previousPressures, build nodeConnections
BeginPass ==
  /\ pc = "loop"
  /\ iteration < MAX_ITERATIONS
  /\ previousPressures' = pressures
  /\ nodeConnections' = Connections(nodes, edges)
  /\ idx' = 1
  /\ passes' = passes + 1
  /\ pc' = "propagate"
  /\ UNCHANGED <<nodes, edges, pressures, flowRates, iteration, historyVars,
                 appVars>>

\* one node of the propagation forEach
PropagateStep ==
  /\ pc = "propagate"
  /\ idx <= Len(nodes)
  /\ pressures' = PropagateNode(nodes, idx, nodeConnections, pressures)
  /\ idx' = idx + 1
  /\ UNCHANGED <<nodes, edges, pc, flowRates, previousPressures,
                 nodeConnections, iteration, passes, historyVars, appVars>>

\* mutant: the flow rates are computed from the pressures the pass began with
CalculateFlow_StalePressures ==
  /\ pc = "propagate"
  /\ idx > Len(nodes)
  /\ flowRates' =
       CalculateFlowRates(nodes, edges, previousPressures, 1, flowRates)
  /\ pc' = "check"
  /\ UNCHANGED <<nodes, edges, pressures, previousPressures, nodeConnections,
                 iteration, idx, passes, historyVars, appVars>>

\* the flow-rate forEach
CalculateFlow ==
  /\ pc = "propagate"
  /\ idx > Len(nodes)
  /\ flowRates' = CalculateFlowRates(nodes, edges, pressures, 1, flowRates)
  /\ pc' = "check"
  /\ UNCHANGED <<nodes, edges, pressures, previousPressures, nodeConnections,
                 iteration, idx, passes, historyVars, appVars>>

\* convergence check: break
ConvergedBreak ==
  /\ pc = "check"
  /\ Converged(pressures, previousPressures)
  /\ result' = [flowRates |-> flowRates, pressures |-> pressures]
  /\ pc' = "returned"
  /\ UNCHANGED <<nodes, edges, solverVars, calls, snapshot, prevSnapshot,
                 prevResult, appVars>>

\* mutant: the loop goes on whatever maxChange is
NextIteration_Unconditional ==
  /\ pc = "check"
  /\ iteration' = iteration + 1
  /\ pc' = "loop"
  /\ UNCHANGED <<nodes, edges, pressures, flowRates, previousPressures,
                 nodeConnections, idx, passes, historyVars, appVars>>

\* convergence check: not converged, iteration++
NextIteration ==
  /\ pc = "check"
  /\ ~Converged(pressures, previousPressures)
  /\ iteration' = iteration + 1
  /\ pc' = "loop"
  /\ UNCHANGED <<nodes, edges, pressures, flowRates, previousPressures,
                 nodeConnections, idx, passes, historyVars, appVars>>

\* loop test fails: the iteration cap ends the loop
LoopExit ==
  /\ pc = "loop"
  /\ iteration >= MAX_ITERATIONS
  /\ result' = [flowRates |-> flowRates, pressures |-> pressures]
  /\ pc' = "returned"
  /\ UNCHANGED <<nodes, edges, solverVars, calls, snapshot, prevSnapshot,
                 prevResult, appVars>>

\* the interval callback dispatches updateFlowRates and updatePressures
Dispatch ==
  /\ pc = "returned"
  /\ edges' = updateFlowRates(edges, result.flowRates)
  /\ nodes' = updatePressures(nodes, result.pressures)
  /\ calls' = calls + 1
  /\ pc' = "idle"
  /\ UNCHANGED <<solverVars, snapshot, result, prevSnapshot, prevResult,
                 appVars>>

Next ==
  \/ Seed
  \/ BeginPass
  \/ PropagateStep
  \/ CalculateFlow
  \/ ConvergedBreak
  \/ NextIteration
  \/ LoopExit
  \/ Dispatch

Spec == Init /\ [][Next]_vars

\* the solver is synchronous code that runs to its end once called, and the
\* interval timer keeps firing: no enabled step is postponed for ever
FairSpec == Spec /\ WF_vars(Next)

\* one invocation of the solver: the first call of the interval callback on
\* each store of Init
FirstSeed == calls = 0 /\ Seed

FirstCallNext ==
  \/ FirstSeed
  \/ BeginPass
  \/ PropagateStep
  \/ CalculateFlow
  \/ ConvergedBreak
  \/ NextIteration
  \/ LoopExit
  \/ Dispatch

FirstCallSpec == Init /\ [][FirstCallNext]_vars

SpecAnyFlags == InitAnyFlags /\ [][FirstCallNext]_vars

SpecNonPositive == InitNonPositive /\ [][Next]_vars

SpecNonFinite == InitNonFinite /\ [][Next]_vars

\* ------------------------------------------------- the editor: conversions
\* the decimal texts that occur, with the number each one denotes
Decimals ==
  {<<"-1", -1>>, <<"0", 0>>, <<"1", 1>>, <<"2", 2>>, <<"5", 5>>, <<"6", 6>>,
   <<"50", 50>>, <<"100", 100>>, <<"201", 201>>}

\* parseFloat(text): NaN for a text that does not begin with a number
ParseFloat(text) ==
  IF \E d \in Decimals : d[1] = text
  THEN (CHOOSE d \in Decimals : d[1] = text)[2]
  ELSE NaN

\* x.toString()
toString(x) ==
  IF x = NaN THEN "NaN" ELSE (CHOOSE d \in Decimals : d[2] = x)[1]

\* a pressure of the store (model units) as the number of bar it holds
ToBar(p) == IF IsFinite(p) THEN p \div Bar ELSE p

FromBar(x) == IF IsFinite(x) THEN x * Bar ELSE x

\* texts typed into the number inputs
DiameterTyped == {"", "0", "2", "6"}
PressureTyped == {"", "-1", "50", "201"}

\* useState('5') of WaterSimulation; no element calls setPressureValue
pressureValue == "5"

\* --------------------------------------------------- the editor: reducers
initialNodes ==
  << [id |-> 1, type |-> "reservoir", pressure |-> 100 * Bar, isOpen |-> TRUE],
     [id |-> 2, type |-> "valve", pressure |-> 0, isOpen |-> TRUE],
     [id |-> 3, type |-> "junction", pressure |-> 0, isOpen |-> TRUE],
     [id |-> 4, type |-> "valve", pressure |-> 0, isOpen |-> TRUE],
     [id |-> 5, type |-> "junction", pressure |-> 0, isOpen |-> TRUE] >>

initialEdges ==
  << [id |-> 1, sourceId |-> 1, targetId |-> 2, flowRate |-> 0, diameter |-> 1],
     [id |-> 2, sourceId |-> 2, targetId |-> 3, flowRate |-> 0, diameter |-> 1],
     [id |-> 3, sourceId |-> 3, targetId |-> 4, flowRate |-> 0, diameter |-> 1],
     [id |-> 4, sourceId |-> 3, targetId |-> 5, flowRate |-> 0, diameter |-> 1] >>

\* uuidv4(): an id no node and no edge has been given before
uuidv4 == Len(initialNodes) + uuids + 1

addNode(ns, id, type, pressure, isOpen) ==
  Append(ns, [id |-> id, type |-> type, pressure |-> pressure,
              isOpen |-> isOpen])

\* removeNode, the node list
removeNodeNodes(ns, id) == SelectSeq(ns, LAMBDA n : n.id # id)

\* removeNode, the edge list
removeNodeEdges(es, id) ==
  SelectSeq(es, LAMBDA e : e.sourceId # id /\ e.targetId # id)

addEdge(es, id, sourceId, targetId) ==
  Append(es, [id |-> id, sourceId |-> sourceId, targetId |-> targetId,
              flowRate |-> 0, diameter |-> 1])

\* index of the first node with this id that is a valve, 0 for undefined
findValve(ns, id) ==
  IF \E i \in 1..Len(ns) : ns[i].id = id /\ ns[i].type = "valve"
  THEN CHOOSE i \in 1..Len(ns) :
         /\ ns[i].id = id /\ ns[i].type = "valve"
         /\ \A j \in 1..(i - 1) : ~(ns[j].id = id /\ ns[j].type = "valve")
  ELSE 0

toggleValve(ns, id) ==
  LET i == findValve(ns, id)
  IN IF i = 0 THEN ns
     ELSE [ns EXCEPT ![i] = [ns[i] EXCEPT !.isOpen = ~ns[i].isOpen]]

updateNodePressure(ns, nodeId, pressure) ==
  LET i == find(ns, nodeId)
  IN IF i = 0 THEN ns
     ELSE [ns EXCEPT ![i] = [ns[i] EXCEPT !.pressure = pressure]]

updateEdgeDiameter(es, edgeId, diameter) ==
  LET k == find(es, edgeId)
  IN IF k = 0 THEN es
     ELSE [es EXCEPT ![k] = [es[k] EXCEPT !.diameter = diameter]]

\* e names a source or a target that is no node of ns
Dangling(ns, e) == e.sourceId \notin IdsOf(ns) \/ e.targetId \notin IdsOf(ns)

\* ------------------------------------------ the editor: what is rendered
\* index of nodes.find(n => n.id === selectedNodeId), 0 for undefined
selectedNode(ns, sel) == IF sel = 0 THEN 0 ELSE find(ns, sel)

\* selectedNode?.type === 'reservoir': the PressureDialog is mounted
PressureDialogMounted(ns, sel) ==
  selectedNode(ns, sel) # 0 /\ ns[selectedNode(ns, sel)].type = "reservoir"

\* prop currentPressure of the PressureDialog, in bar
currentPressure(ns, sel) == ToBar(ns[selectedNode(ns, sel)].pressure)

\* prop currentDiameter of the DiameterDialog
currentDiameter(text) == ParseFloat(text)

PressureDialogShown ==
  PressureDialogMounted(nodes, selectedNodeId) /\ isPressureDialogOpen

DiameterDialogShown == selectedEdgeId # 0 /\ isDiameterDialogOpen

\* state of the PressureDialog after a render: none while it is not mounted,
\* useState(currentPressure.toString()) on mounting, reset by the effect
\* when currentPressure or isOpen changed, else what the handler left
PressureDialogRendered(text, error) ==
  IF ~PressureDialogMounted(nodes', selectedNodeId')
  THEN pressureText' = "" /\ pressureError' = "null"
  ELSE IF \/ ~PressureDialogMounted(nodes, selectedNodeId)
          \/ isPressureDialogOpen' # isPressureDialogOpen
          \/ currentPressure(nodes', selectedNodeId')
               # currentPressure(nodes, selectedNodeId)
       THEN /\ pressureText' =
                 toString(currentPressure(nodes', selectedNodeId'))
            /\ pressureError' = "null"
       ELSE pressureText' = text /\ pressureError' = error

\* state of the DiameterDialog after a render, likewise
DiameterDialogRendered(text, error) ==
  IF selectedEdgeId' = 0
  THEN diameterText' = "" /\ diameterError' = "null"
  ELSE IF \/ selectedEdgeId = 0
          \/ isDiameterDialogOpen' # isDiameterDialogOpen
          \/ currentDiameter(diameterValue') # currentDiameter(diameterValue)
       THEN /\ diameterText' = toString(currentDiameter(diameterValue'))
            /\ diameterError' = "null"
       ELSE diameterText' = text /\ diameterError' = error

\* a render in which no dialog handler ran
Rendered ==
  /\ PressureDialogRendered(pressureText, pressureError)
  /\ DiameterDialogRendered(diameterText, diameterError)

\* ---------------------------------------------------- the editor: actions
solverState == <<pc, solverVars, historyVars>>

\* mutant: the effect returns no cleanup
SimulationEffect_NoCleanup ==
  simulationIntervals' =
    IF <<isSimulationRunning', nodes', edges'>>
         = <<isSimulationRunning, nodes, edges>>
    THEN simulationIntervals
    ELSE simulationIntervals + (IF isSimulationRunning' THEN 1 ELSE 0)

\* the simulation effect after the render that follows a step: when
\* isSimulationRunning, nodes or edges has changed, the cleanup of its last
\* run clears the interval that run set (it set one if the simulation was
\* running), and the effect sets a new interval if the simulation runs
SimulationEffect ==
  simulationIntervals' =
    IF <<isSimulationRunning', nodes', edges'>>
         = <<isSimulationRunning, nodes, edges>>
    THEN simulationIntervals
    ELSE simulationIntervals - (IF isSimulationRunning THEN 1 ELSE 0)
                             + (IF isSimulationRunning' THEN 1 ELSE 0)

\* one more action of the user
Gesture == gestures < MaxGestures /\ gestures' = gestures + 1

\* the store and the component after construction
AppInit ==
  /\ nodes = initialNodes
  /\ edges = initialEdges
  /\ isSimulationRunning = FALSE
  /\ EffectRan
  /\ ComponentInit
  /\ SolverIdle

\* the callback of a set interval as one step: the solver runs on the store's lists,
\* then updateFlowRates and updatePressures are dispatched
Tick ==
  /\ simulationIntervals > 0
  /\ \E r \in {calculateFluidDynamics(nodes, edges)} :
       /\ edges' = updateFlowRates(edges, r.flowRates)
       /\ nodes' = updatePressures(nodes, r.pressures)
  /\ UNCHANGED <<isSimulationRunning, componentVars, uuids, gestures>>
  /\ Rendered
  /\ UNCHANGED solverState
  /\ SimulationEffect

\* mutant: only a pipe from a to b counts as a connection
connectionExists_OneWay(es, a, b) ==
  \E k \in 1..Len(es) : es[k].sourceId = a /\ es[k].targetId = b

\* edges.some(...) of handleNodeClick: a pipe joins a and b, either way round
connectionExists(es, a, b) ==
  \E k \in 1..Len(es) :
    \/ es[k].sourceId = a /\ es[k].targetId = b
    \/ es[k].sourceId = b /\ es[k].targetId = a

\* a click on the node nodeId of the canvas
handleNodeClick(nodeId) ==
  /\ Gesture
  /\ nodeId \in IdsOf(nodes)
  /\ LET clickedNode == nodes[find(nodes, nodeId)]
     IN IF clickedNode.type = "valve" /\ isSimulationRunning
        THEN /\ nodes' = toggleValve(nodes, nodeId)
             /\ UNCHANGED <<edges, selectedNodeId, isPressureDialogOpen,
                            uuids>>
        ELSE IF isConnectionMode /\ ~isSimulationRunning
        THEN IF selectedNodeId = 0
             THEN /\ selectedNodeId' = nodeId
                  /\ UNCHANGED <<nodes, edges, isPressureDialogOpen, uuids>>
             ELSE IF selectedNodeId # nodeId
             THEN /\ IF connectionExists(edges, selectedNodeId, nodeId)
                     THEN UNCHANGED <<edges, uuids>>
                     ELSE /\ edges' = addEdge(edges, uuidv4, selectedNodeId,
                                              nodeId)
                          /\ uuids' = uuids + 1
                  /\ selectedNodeId' = 0
                  /\ UNCHANGED <<nodes, isPressureDialogOpen>>
             ELSE UNCHANGED <<nodes, edges, selectedNodeId,
                              isPressureDialogOpen, uuids>>
        ELSE IF clickedNode.type = "reservoir" /\ ~isSimulationRunning
        THEN /\ selectedNodeId' = nodeId
             /\ isPressureDialogOpen' = TRUE
             /\ UNCHANGED <<nodes, edges, uuids>>
        ELSE UNCHANGED <<nodes, edges, selectedNodeId, isPressureDialogOpen,
                         uuids>>
  /\ UNCHANGED <<isSimulationRunning, selectedNodeType, isConnectionMode,
                 selectedEdgeId, diameterValue, isDiameterDialogOpen>>
  /\ Rendered
  /\ UNCHANGED solverState
  /\ SimulationEffect

\* a click on the pipe edgeId of the canvas; the canvas finds a pipe only if
\* both its end nodes exist
handleEdgeClick(edgeId) ==
  /\ Gesture
  /\ \E k \in 1..Len(edges) : edges[k].id = edgeId /\ ~Dangling(nodes, edges[k])
  /\ IF ~isSimulationRunning
     THEN /\ selectedEdgeId' = edgeId
          /\ diameterValue' = toString(edges[find(edges, edgeId)].diameter)
          /\ isDiameterDialogOpen' = TRUE
     ELSE UNCHANGED <<selectedEdgeId, diameterValue, isDiameterDialogOpen>>
  /\ UNCHANGED <<nodes, edges, isSimulationRunning, selectedNodeId,
                 selectedNodeType, isConnectionMode, isPressureDialogOpen,
                 uuids>>
  /\ Rendered
  /\ UNCHANGED solverState
  /\ SimulationEffect

\* a click on the canvas beside every node and pipe
handleCanvasClick ==
  /\ Gesture
  /\ IF selectedNodeType = "null" \/ isSimulationRunning
     THEN UNCHANGED <<nodes, uuids>>
     ELSE /\ nodes' = addNode(nodes, uuidv4, selectedNodeType,
                        IF selectedNodeType = "reservoir"
                        THEN FromBar(ParseFloat(pressureValue)) ELSE 0,
                        TRUE)
          /\ uuids' = uuids + 1
  /\ UNCHANGED <<edges, isSimulationRunning, componentVars>>
  /\ Rendered
  /\ UNCHANGED solverState
  /\ SimulationEffect

\* the buttons Add Reservoir / Add Valve / Add Junction / Connect Nodes
\* ("null"), disabled while the simulation runs
handleNodeTypeSelect(type) ==
  /\ Gesture
  /\ ~isSimulationRunning
  /\ IF type = "null"
     THEN isConnectionMode' = ~isConnectionMode /\ selectedNodeType' = "null"
     ELSE isConnectionMode' = FALSE /\ selectedNodeType' = type
  /\ selectedNodeId' = 0
  /\ UNCHANGED <<nodes, edges, isSimulationRunning, isPressureDialogOpen,
                 selectedEdgeId, diameterValue, isDiameterDialogOpen, uuids>>
  /\ Rendered
  /\ UNCHANGED solverState
  /\ SimulationEffect

\* the Start / Stop button, disabled while there is no node
handleSimulationToggle ==
  /\ Gesture
  /\ Len(nodes) # 0
  /\ isSimulationRunning' = ~isSimulationRunning
  /\ selectedNodeId' = 0
  /\ selectedNodeType' = "null"
  /\ isConnectionMode' = FALSE
  /\ UNCHANGED <<nodes, edges, isPressureDialogOpen, selectedEdgeId,
                 diameterValue, isDiameterDialogOpen, uuids>>
  /\ Rendered
  /\ UNCHANGED solverState
  /\ SimulationEffect

\* right click
handleContextMenu ==
  /\ Gesture
  /\ IF ~isSimulationRunning
     THEN /\ selectedNodeType' = "null"
          /\ selectedNodeId' = 0
          /\ isConnectionMode' = FALSE
     ELSE UNCHANGED <<selectedNodeType, selectedNodeId, isConnectionMode>>
  /\ UNCHANGED <<nodes, edges, isSimulationRunning, isPressureDialogOpen,
                 selectedEdgeId, diameterValue, isDiameterDialogOpen, uuids>>
  /\ Rendered
  /\ UNCHANGED solverState
  /\ SimulationEffect

\* the edge controls, rendered when selectedEdgeId && !isSimulationRunning:
\* typing into the input
EdgeControls_onChange(text) ==
  /\ Gesture
  /\ selectedEdgeId # 0 /\ ~isSimulationRunning
  /\ diameterValue' = text
  /\ UNCHANGED <<nodes, edges, isSimulationRunning, selectedNodeId,
                 selectedNodeType, isConnectionMode, isPressureDialogOpen,
                 selectedEdgeId, isDiameterDialogOpen, uuids>>
  /\ Rendered
  /\ UNCHANGED solverState
  /\ SimulationEffect

\* the edge controls: the button Update Diameter
EdgeControls_onClick ==
  /\ Gesture
  /\ selectedEdgeId # 0 /\ ~isSimulationRunning
  /\ isDiameterDialogOpen' = TRUE
  /\ UNCHANGED <<nodes, edges, isSimulationRunning, selectedNodeId,
                 selectedNodeType, isConnectionMode, isPressureDialogOpen,
                 selectedEdgeId, diameterValue, uuids>>
  /\ Rendered
  /\ UNCHANGED solverState
  /\ SimulationEffect

\* typing into the DiameterDialog
DiameterDialog_onChange(text) ==
  /\ Gesture
  /\ DiameterDialogShown
  /\ UNCHANGED <<nodes, edges, isSimulationRunning, componentVars, uuids>>
  /\ PressureDialogRendered(pressureText, pressureError)
  /\ DiameterDialogRendered(text, "null")
  /\ UNCHANGED solverState
  /\ SimulationEffect

\* mutant: the dialog accepts every number
DiameterDialog_handleSubmit_NoRange ==
  /\ Gesture
  /\ DiameterDialogShown
  /\ UNCHANGED <<nodes, isSimulationRunning, selectedNodeId, selectedNodeType,
                 isConnectionMode, isPressureDialogOpen, selectedEdgeId,
                 diameterValue, uuids>>
  /\ LET newDiameter == ParseFloat(diameterText)
     IN IF newDiameter = NaN
        THEN /\ UNCHANGED <<edges, isDiameterDialogOpen>>
             /\ DiameterDialogRendered(diameterText,
                                       "Please enter a valid number")
        ELSE /\ edges' = updateEdgeDiameter(edges, selectedEdgeId, newDiameter)
             /\ isDiameterDialogOpen' = FALSE
             /\ DiameterDialogRendered(diameterText, diameterError)
  /\ PressureDialogRendered(pressureText, pressureError)
  /\ UNCHANGED solverState
  /\ SimulationEffect

\* the DiameterDialog is submitted: handleSubmit, with handleDiameterUpdate
\* as onUpdate
DiameterDialog_handleSubmit ==
  /\ Gesture
  /\ DiameterDialogShown
  /\ UNCHANGED <<nodes, isSimulationRunning, selectedNodeId, selectedNodeType,
                 isConnectionMode, isPressureDialogOpen, selectedEdgeId,
                 diameterValue, uuids>>
  /\ LET newDiameter == ParseFloat(diameterText)
     IN IF newDiameter = NaN
        THEN /\ UNCHANGED <<edges, isDiameterDialogOpen>>
             /\ DiameterDialogRendered(diameterText,
                                       "Please enter a valid number")
        ELSE IF newDiameter <= 0
        THEN /\ UNCHANGED <<edges, isDiameterDialogOpen>>
             /\ DiameterDialogRendered(diameterText,
                                       "Diameter must be greater than zero")
        ELSE IF newDiameter > 5
        THEN /\ UNCHANGED <<edges, isDiameterDialogOpen>>
             /\ DiameterDialogRendered(diameterText,
                                       "Maximum diameter is 5 meters")
        ELSE /\ edges' = updateEdgeDiameter(edges, selectedEdgeId, newDiameter)
             /\ isDiameterDialogOpen' = FALSE
             /\ DiameterDialogRendered(diameterText, diameterError)
  /\ PressureDialogRendered(pressureText, pressureError)
  /\ UNCHANGED solverState
  /\ SimulationEffect

\* Cancel of the DiameterDialog
DiameterDialog_handleCancel ==
  /\ Gesture
  /\ DiameterDialogShown
  /\ isDiameterDialogOpen' = FALSE
  /\ UNCHANGED <<nodes, edges, isSimulationRunning, selectedNodeId,
                 selectedNodeType, isConnectionMode, isPressureDialogOpen,
                 selectedEdgeId, diameterValue, uuids>>
  /\ PressureDialogRendered(pressureText, pressureError)
  /\ DiameterDialogRendered(toString(currentDiameter(diameterValue)), "null")
  /\ UNCHANGED solverState
  /\ SimulationEffect

\* typing into the PressureDialog
PressureDialog_onChange(text) ==
  /\ Gesture
  /\ PressureDialogShown
  /\ UNCHANGED <<nodes, edges, isSimulationRunning, componentVars, uuids>>
  /\ PressureDialogRendered(text, "null")
  /\ DiameterDialogRendered(diameterText, diameterError)
  /\ UNCHANGED solverState
  /\ SimulationEffect

\* the PressureDialog is submitted: handleSubmit, with handlePressureUpdate
\* as onUpdate
PressureDialog_handleSubmit ==
  /\ Gesture
  /\ PressureDialogShown
  /\ UNCHANGED <<edges, isSimulationRunning, selectedNodeId, selectedNodeType,
                 isConnectionMode, selectedEdgeId, diameterValue,
                 isDiameterDialogOpen, uuids>>
  /\ LET newPressure == ParseFloat(pressureText)
     IN IF newPressure = NaN
        THEN /\ UNCHANGED <<nodes, isPressureDialogOpen>>
             /\ PressureDialogRendered(pressureText,
                                       "Please enter a valid number")
        ELSE IF newPressure < 0
        THEN /\ UNCHANGED <<nodes, isPressureDialogOpen>>
             /\ PressureDialogRendered(pressureText,
                                       "Pressure cannot be negative")
        ELSE IF newPressure > 200
        THEN /\ UNCHANGED <<nodes, isPressureDialogOpen>>
             /\ PressureDialogRendered(pressureText,
                                       "Maximum pressure is 200 bar")
        ELSE /\ nodes' = IF selectedNodeId = 0 THEN nodes
                         ELSE updateNodePressure(nodes, selectedNodeId,
                                                 FromBar(newPressure))
             /\ isPressureDialogOpen' = FALSE
             /\ PressureDialogRendered(pressureText, pressureError)
  /\ DiameterDialogRendered(diameterText, diameterError)
  /\ UNCHANGED solverState
  /\ SimulationEffect

\* Cancel of the PressureDialog
PressureDialog_handleCancel ==
  /\ Gesture
  /\ PressureDialogShown
  /\ isPressureDialogOpen' = FALSE
  /\ UNCHANGED <<nodes, edges, isSimulationRunning, selectedNodeId,
                 selectedNodeType, isConnectionMode, selectedEdgeId,
                 diameterValue, isDiameterDialogOpen, uuids>>
  /\ PressureDialogRendered(
       toString(currentPressure(nodes, selectedNodeId)), "null")
  /\ DiameterDialogRendered(diameterText, diameterError)
  /\ UNCHANGED solverState
  /\ SimulationEffect

\* the action removeNode of the slice is dispatched for the node nodeId
removeNode(nodeId) ==
  /\ Gesture
  /\ nodeId \in IdsOf(nodes)
  /\ nodes' = removeNodeNodes(nodes, nodeId)
  /\ edges' = removeNodeEdges(edges, nodeId)
  /\ UNCHANGED <<isSimulationRunning, componentVars, uuids>>
  /\ Rendered
  /\ UNCHANGED solverState
  /\ SimulationEffect

\* ids a click or a dispatch can name
AllNodeIds == 1..(Len(initialNodes) + MaxGestures)

AppNext ==
  \/ Tick
  \/ \E nodeId \in AllNodeIds : handleNodeClick(nodeId)
  \/ \E edgeId \in AllNodeIds : handleEdgeClick(edgeId)
  \/ handleCanvasClick
  \/ \E type \in NodeTypes \cup {"null"} : handleNodeTypeSelect(type)
  \/ handleSimulationToggle
  \/ handleContextMenu
  \/ \E text \in DiameterTyped : EdgeControls_onChange(text)
  \/ EdgeControls_onClick
  \/ \E text \in DiameterTyped : DiameterDialog_onChange(text)
  \/ DiameterDialog_handleSubmit
  \/ DiameterDialog_handleCancel
  \/ \E text \in PressureTyped : PressureDialog_onChange(text)
  \/ PressureDialog_handleSubmit
  \/ PressureDialog_handleCancel
  \/ \E nodeId \in AllNodeIds : removeNode(nodeId)

AppSpec == AppInit /\ [][AppNext]_vars

\* the running phase on its own: clicks on the nodes of the canvas and on
\* Start/Stop, and the ticks; no edit of the network follows a valve click
ValveNext ==
  \/ Tick
  \/ \E nodeId \in AllNodeIds : handleNodeClick(nodeId)
  \/ handleSimulationToggle

ValveSpec == AppInit /\ [][ValveNext]_vars

\* while the simulation runs the interval timer keeps firing: every render
\* that follows a change of the store sets a new interval of 100 ms
FairValveSpec == ValveSpec /\ WF_vars(Tick)

\* ------------------------------------------------------------ properties
\* a pass of the loop has run to its end in the current invocation
AfterPass == passes >= 1 /\ pc \in {"check", "loop", "returned"}

Reservoirs(ns) == {i \in 1..Len(ns) : ns[i].type = "reservoir"}
NonReservoirs(ns) == {i \in 1..Len(ns) : ns[i].type # "reservoir"}

\* e has an endpoint that is a valve with isOpen = false
HasClosedValveEnd(ns, e) ==
  \E i \in 1..Len(ns) :
    ns[i].id \in {e.sourceId, e.targetId} /\ IsClosedValve(ns[i])

\* both endpoints exist and neither is a closed valve
ActiveEdge(ns, e) ==
  /\ e.sourceId \in IdsOf(ns)
  /\ e.targetId \in IdsOf(ns)
  /\ ~HasClosedValveEnd(ns, e)

\* ids joined to a member of S by a path of active edges
RECURSIVE ActiveClosure(_, _, _)
ActiveClosure(ns, es, S) ==
  LET T == S \cup {id \in IdsOf(ns) :
                     \E k \in 1..Len(es) :
                       /\ ActiveEdge(ns, es[k])
                       /\ \/ es[k].sourceId \in S /\ es[k].targetId = id
                          \/ es[k].targetId \in S /\ es[k].sourceId = id}
  IN IF T = S THEN S ELSE ActiveClosure(ns, es, T)

\* ids with an active path to a reservoir of pressure > 0
Pressurised(ns, es) ==
  ActiveClosure(ns, es,
    {ns[i].id : i \in {j \in Reservoirs(ns) : ns[j].pressure > 0}})

\* C1: in every state of an invocation, and in the value returned, the
\* pressure of every reservoir equals the pressure the reservoir was given
\* in the input; no step of a pass assigns it a different value.
C1_ReservoirPressureKept ==
  pc # "idle" =>
    \A i \in Reservoirs(snapshot.nodes) :
      /\ pressures[snapshot.nodes[i].id] = snapshot.nodes[i].pressure
      /\ pc = "returned" =>
           result.pressures[snapshot.nodes[i].id] = snapshot.nodes[i].pressure

\* a reservoir of pressure > 0 with a neighbour that holds pressure > 0,
\* after at least two passes
C1_Witness ==
  /\ pc = "returned"
  /\ passes >= 2
  /\ \E i \in Reservoirs(snapshot.nodes) :
       /\ snapshot.nodes[i].pressure > 0
       /\ \E k \in 1..Len(nodeConnections[snapshot.nodes[i].id]) :
            result.pressures[nodeConnections[snapshot.nodes[i].id][k]] > 0

\* C2: an edge with a closed valve at either end has flowRate exactly 0
\* whenever it has a flow rate, it has one after every pass, and it has
\* flowRate 0 in the returned map.
C2_ClosedValveNoFlow ==
  pc # "idle" =>
    \A k \in 1..Len(snapshot.edges) :
      LET e == snapshot.edges[k]
      IN HasClosedValveEnd(snapshot.nodes, e) =>
           /\ e.id \in DOMAIN flowRates => flowRates[e.id] = 0
           /\ AfterPass => e.id \in DOMAIN flowRates
           /\ pc = "returned" =>
                e.id \in DOMAIN result.flowRates /\ result.flowRates[e.id] = 0

\* an edge of diameter 2 between a closed valve and a node of pressure > 0
C2_Witness ==
  /\ pc = "returned"
  /\ \E k \in 1..Len(snapshot.edges) :
       LET e == snapshot.edges[k]
       IN /\ HasClosedValveEnd(snapshot.nodes, e)
          /\ e.diameter = 2
          /\ e.sourceId \in DOMAIN result.pressures
          /\ e.targetId \in DOMAIN result.pressures
          /\ result.pressures[e.sourceId] # result.pressures[e.targetId]

\* Reservoir - pipe - ClosedValve - pipe - Junction, in any list order and
\* with either orientation of the pipes
IsValveChain(ns, es) ==
  /\ Len(ns) = 3
  /\ Len(es) = 2
  /\ \E r, v, j \in 1..3 :
       /\ ns[r].type = "reservoir"
       /\ IsClosedValve(ns[v])
       /\ ns[j].type = "junction"
       /\ \E a, b \in 1..2 :
            /\ a # b
            /\ {es[a].sourceId, es[a].targetId} = {ns[r].id, ns[v].id}
            /\ {es[b].sourceId, es[b].targetId} = {ns[v].id, ns[j].id}

\* C3: a non-reservoir node without a path of active edges to a reservoir of
\* pressure > 0 has pressure exactly 0 in every state of an invocation and
\* in the returned map; in Reservoir - ClosedValve - Junction both pipes
\* have flowRate exactly 0 after every pass.
C3_ValveBlocksPropagation ==
  pc # "idle" =>
    /\ LET fed == Pressurised(snapshot.nodes, snapshot.edges)
       IN \A i \in NonReservoirs(snapshot.nodes) :
            snapshot.nodes[i].id \notin fed
              => /\ pressures[snapshot.nodes[i].id] = 0
                 /\ pc = "returned" =>
                      result.pressures[snapshot.nodes[i].id] = 0
    /\ (IsValveChain(snapshot.nodes, snapshot.edges) /\ AfterPass) =>
         \A k \in 1..2 :
           /\ snapshot.edges[k].id \in DOMAIN flowRates
           /\ flowRates[snapshot.edges[k].id] = 0

\* the valve chain with a reservoir of 100 bar has returned
C3_Witness ==
  /\ pc = "returned"
  /\ IsValveChain(snapshot.nodes, snapshot.edges)
  /\ \E i \in Reservoirs(snapshot.nodes) : snapshot.nodes[i].pressure = 100 * Bar
  /\ \A i \in NonReservoirs(snapshot.nodes) :
       result.pressures[snapshot.nodes[i].id] = 0

\* the list es without its k-th element
WithoutEdge(es, k) ==
  [l \in 1..(Len(es) - 1) |-> IF l < k THEN es[l] ELSE es[l + 1]]

\* number of solver steps left in the current invocation, at most
StepsLeft ==
  LET perPass == Len(nodes) + 3
  IN CASE pc = "loop" -> (MAX_ITERATIONS - iteration) * perPass + 1
       [] pc = "propagate" ->
            (MAX_ITERATIONS - iteration - 1) * perPass + 1
              + (Len(nodes) - idx + 1) + 2
       [] pc = "check" -> (MAX_ITERATIONS - iteration - 1) * perPass + 2
       [] OTHER -> 0

\* C4: an invocation of the solver never begins an 11th pass and has run at
\* least 1 pass when it returns; it terminates: until it has returned a step
\* is always possible, and every step lowers the non-negative number
\* StepsLeft, cycles in the network or not.
C4_BoundedIteration ==
  /\ [](passes <= 10)
  /\ [](pc = "returned" => passes >= 1)
  /\ [](StepsLeft >= 0)
  /\ [](pc \in {"loop", "propagate", "check"} => ENABLED Next)
  /\ [][(pc \in {"loop", "propagate", "check"}) => (StepsLeft' < StepsLeft)]_vars

\* a run returns after exactly 10 passes although its last pass still
\* changed a pressure by 0.01 bar or more: the cap ended the loop
C4_Witness ==
  /\ pc = "returned"
  /\ passes = 10
  /\ \E id \in DOMAIN pressures :
       Abs(pressures[id] - previousPressures[id]) >= ConvergenceThreshold

\* a snapshot without the values a tick writes: the pressure field of the
\* non-reservoir nodes and the flowRate field of the edges
StripNodes(ns) ==
  [i \in 1..Len(ns) |->
     IF ns[i].type = "reservoir" THEN ns[i] ELSE [ns[i] EXCEPT !.pressure = 0]]

StripEdges(es) == [k \in 1..Len(es) |-> [es[k] EXCEPT !.flowRate = 0]]

Strip(snap) ==
  [nodes |-> StripNodes(snap.nodes), edges |-> StripEdges(snap.edges)]

\* C5: the maps an invocation returns are a function of the node list and
\* edge list it is given, whatever the invocations before it did; so an
\* invocation given the same lists as the invocation before it returns the
\* same pressure map and flow-rate map.
C5_Determinism ==
  pc = "returned" =>
    /\ result = calculateFluidDynamics(snapshot.nodes, snapshot.edges)
    /\ (calls >= 1 /\ snapshot = prevSnapshot) => result = prevResult

\* the same snapshot solved twice, with pressure propagated over two passes
\* or more and a pipe that carries flow
C5_Witness ==
  /\ pc = "returned"
  /\ calls >= 1
  /\ snapshot = prevSnapshot
  /\ passes >= 2
  /\ \E i \in NonReservoirs(snapshot.nodes) :
       result.pressures[snapshot.nodes[i].id] > 0
  /\ \E id \in DOMAIN result.flowRates : result.flowRates[id] # 0

\* C6: an invocation whose snapshot differs from the previous one only in
\* the pressure field of non-reservoir nodes and the flowRate field of edges
\* returns the same maps, and dispatching them leaves the store as it is.
C6_NoMemoryAcrossTicks ==
  (pc = "returned" /\ calls >= 1 /\ Strip(snapshot) = Strip(prevSnapshot))
    => /\ result = prevResult
       /\ updatePressures(nodes, result.pressures) = nodes
       /\ updateFlowRates(edges, result.flowRates) = edges

\* the second tick ran on a store that holds the first tick's non-zero
\* pressures and flow rates
C6_Witness ==
  /\ pc = "returned"
  /\ calls >= 1
  /\ snapshot # prevSnapshot
  /\ Strip(snapshot) = Strip(prevSnapshot)
  /\ \E i \in NonReservoirs(snapshot.nodes) : snapshot.nodes[i].pressure > 0
  /\ \E k \in 1..Len(snapshot.edges) : snapshot.edges[k].flowRate # 0
  /\ passes >= 2

\* the node list ns with the pressure of the node at index i set to q
WithPressure(ns, i, q) == [ns EXCEPT ![i] = [ns[i] EXCEPT !.pressure = q]]

\* C7: with everything else fixed, the solver returns for a reservoir
\* pressure P no lower pressure than for a reservoir pressure q < P, at
\* every node joined to that reservoir by active edges.
C7_Monotonicity ==
  pc = "returned" =>
    \A i \in Reservoirs(snapshot.nodes) :
      \A q \in ReservoirPressures :
        q < snapshot.nodes[i].pressure =>
          \A id \in ActiveClosure(snapshot.nodes, snapshot.edges,
                                  {snapshot.nodes[i].id}) :
            calculateFluidDynamics(WithPressure(snapshot.nodes, i, q),
                                   snapshot.edges).pressures[id]
              <= result.pressures[id]

\* C8: for R (reservoir, 100 bar), V (open valve), J (junction) in any list
\* order, with the edges R->V and V->J of diameter 1, the solver returns
\* 100 > pressure(V) > pressure(J) > 0 and a positive flow on both edges.
C8_ConcreteScenario ==
  pc = "returned" =>
    \A r, v, j \in 1..Len(snapshot.nodes) :
      \A a, b \in 1..Len(snapshot.edges) :
        LET ns == snapshot.nodes
            es == snapshot.edges
        IN (/\ Len(ns) = 3
            /\ Len(es) = 2
            /\ ns[r].type = "reservoir" /\ ns[r].pressure = 100 * Bar
            /\ ns[v].type = "valve" /\ ns[v].isOpen
            /\ ns[j].type = "junction"
            /\ es[a].sourceId = ns[r].id /\ es[a].targetId = ns[v].id
            /\ es[b].sourceId = ns[v].id /\ es[b].targetId = ns[j].id
            /\ es[a].diameter = 1 /\ es[b].diameter = 1)
           => /\ 100 * Bar > result.pressures[ns[v].id]
              /\ result.pressures[ns[v].id] > result.pressures[ns[j].id]
              /\ result.pressures[ns[j].id] > 0
              /\ result.flowRates[es[a].id] > 0
              /\ result.flowRates[es[b].id] > 0

\* the scenario has returned for the node list [J, V, R], on a fresh store
C8_Witness ==
  /\ pc = "returned"
  /\ calls = 0
  /\ Len(snapshot.nodes) = 3
  /\ Len(snapshot.edges) = 2
  /\ snapshot.nodes[1].type = "junction"
  /\ snapshot.nodes[2].type = "valve" /\ snapshot.nodes[2].isOpen
  /\ snapshot.nodes[3].type = "reservoir"
  /\ snapshot.nodes[3].pressure = 100 * Bar
  /\ \E a, b \in 1..2 :
       /\ snapshot.edges[a].sourceId = 3 /\ snapshot.edges[a].targetId = 2
       /\ snapshot.edges[b].sourceId = 2 /\ snapshot.edges[b].targetId = 1
       /\ snapshot.edges[a].diameter = 1
  /\ passes >= 2

\* the first pass has run its propagation step to the end
FirstPassPropagated ==
  \/ passes >= 2
  \/ passes = 1 /\ pc \in {"check", "loop", "returned"}
  \/ passes = 1 /\ pc = "propagate" /\ idx > Len(nodes)

\* C9: for a reservoir of pressure P > 0 joined as source by one pipe to one
\* junction, the junction holds 0.975 * P (to the nearest unit; 97.5 bar for
\* P = 100 bar) from the end of the first pass on, and the returned flow
\* rate of the pipe is positive.
C9_SinglePath ==
  pc # "idle" =>
    \A r, j \in 1..Len(snapshot.nodes) :
      LET ns == snapshot.nodes
          es == snapshot.edges
      IN (/\ Len(ns) = 2
          /\ Len(es) = 1
          /\ ns[r].type = "reservoir" /\ ns[r].pressure > 0
          /\ ns[j].type = "junction"
          /\ es[1].sourceId = ns[r].id /\ es[1].targetId = ns[j].id)
         => /\ FirstPassPropagated =>
                 /\ Abs(40 * pressures[ns[j].id] - 39 * ns[r].pressure) <= 20
                 /\ ns[r].pressure = 100 * Bar =>
                      pressures[ns[j].id] = 975000
            /\ pc = "returned" =>
                 /\ result.pressures[ns[j].id] = pressures[ns[j].id]
                 /\ result.flowRates[es[1].id] > 0

\* the single path with P = 100 bar has returned after a second pass
C9_Witness ==
  /\ pc = "returned"
  /\ passes >= 2
  /\ Len(snapshot.nodes) = 2
  /\ Len(snapshot.edges) = 1
  /\ snapshot.nodes[1].type = "junction"
  /\ snapshot.nodes[2].type = "reservoir"
  /\ snapshot.nodes[2].pressure = 100 * Bar
  /\ snapshot.edges[1].sourceId = 2 /\ snapshot.edges[1].targetId = 1
  /\ result.pressures[1] = 975000

\* C10: with an empty edge list the solver returns after its first pass,
\* with pressure 0 for every non-reservoir node, the input pressure for
\* every reservoir and no non-zero flow rate.
C10_NoEdges ==
  (pc = "returned" /\ Len(snapshot.edges) = 0) =>
    /\ passes = 1
    /\ \A i \in NonReservoirs(snapshot.nodes) :
         result.pressures[snapshot.nodes[i].id] = 0
    /\ \A i \in Reservoirs(snapshot.nodes) :
         result.pressures[snapshot.nodes[i].id] = snapshot.nodes[i].pressure
    /\ \A id \in DOMAIN result.flowRates : result.flowRates[id] = 0

\* three nodes without edges, one of them a reservoir of 100 bar
C10_Witness ==
  /\ pc = "returned"
  /\ Len(snapshot.edges) = 0
  /\ Len(snapshot.nodes) = 3
  /\ \E i \in Reservoirs(snapshot.nodes) :
       snapshot.nodes[i].pressure = 100 * Bar
  /\ NonReservoirs(snapshot.nodes) # {}

\* C11: in the returned value, every active edge whose endpoints both exist
\* has flowRate = (pressure[source] - pressure[target]) * d^4 (in units of
\* pi/8) for the pressures of the same returned map; the flow rate is
\* positive exactly when the source pressure exceeds the target pressure
\* and 0 exactly when the two are equal.
C11_FlowMatchesPressures ==
  pc = "returned" =>
    \A k \in 1..Len(snapshot.edges) :
      LET e == snapshot.edges[k]
          d == e.diameter
      IN ActiveEdge(snapshot.nodes, e) =>
           /\ e.id \in DOMAIN result.flowRates
           /\ result.flowRates[e.id] =
                (result.pressures[e.sourceId] - result.pressures[e.targetId])
                  * (d * d * d * d)
           /\ (result.flowRates[e.id] > 0) <=>
                (result.pressures[e.sourceId] > result.pressures[e.targetId])
           /\ (result.flowRates[e.id] = 0) <=>
                (result.pressures[e.sourceId] = result.pressures[e.targetId])

\* the last of two or more passes changed the pressure at an end of an
\* active edge of diameter 2, which carries flow in the returned map
C11_Witness ==
  /\ pc = "returned"
  /\ passes >= 2
  /\ \E k \in 1..Len(snapshot.edges) :
       LET e == snapshot.edges[k]
       IN /\ ActiveEdge(snapshot.nodes, e)
          /\ e.diameter = 2
          /\ result.flowRates[e.id] # 0
          /\ \/ result.pressures[e.sourceId] # previousPressures[e.sourceId]
             \/ result.pressures[e.targetId] # previousPressures[e.targetId]

\* C12: every active edge of diameter <= 0 (zero or negative) has flowRate
\* exactly 0 in the returned map.
C12_NonPositiveDiameterNoFlow ==
  pc = "returned" =>
    \A k \in 1..Len(snapshot.edges) :
      LET e == snapshot.edges[k]
      IN (ActiveEdge(snapshot.nodes, e) /\ e.diameter <= 0) =>
           /\ e.id \in DOMAIN result.flowRates
           /\ result.flowRates[e.id] = 0

\* the part of C12 the code meets: an active edge of diameter 0 has
\* flowRate exactly 0
C12_ZeroDiameterNoFlow ==
  pc = "returned" =>
    \A k \in 1..Len(snapshot.edges) :
      LET e == snapshot.edges[k]
      IN (ActiveEdge(snapshot.nodes, e) /\ e.diameter = 0) =>
           /\ e.id \in DOMAIN result.flowRates
           /\ result.flowRates[e.id] = 0

\* C13: an edge whose sourceId or targetId matches no node adds no
\* neighbour to any node and has flowRate exactly 0 in the returned map; the
\* solver returns a pressure for every node and a flow rate for every edge,
\* and the pressures and the other flow rates are those returned for the
\* network without that edge.
C13_DanglingEdgeIgnored ==
  pc = "returned" =>
    \A k \in 1..Len(snapshot.edges) :
      LET ns == snapshot.nodes
          es == snapshot.edges
      IN Dangling(ns, es[k]) =>
           LET without == calculateFluidDynamics(ns, WithoutEdge(es, k))
           IN /\ result.flowRates[es[k].id] = 0
              /\ Connections(ns, es) = Connections(ns, WithoutEdge(es, k))
              /\ DOMAIN result.pressures = IdsOf(ns)
              /\ DOMAIN result.flowRates = {es[l].id : l \in 1..Len(es)}
              /\ result.pressures = without.pressures
              /\ \A l \in 1..Len(es) :
                   l # k => result.flowRates[es[l].id] =
                              without.flowRates[es[l].id]

\* a dangling edge at a node that holds pressure > 0, beside an edge that
\* carries flow, after two passes or more
C13_Witness ==
  /\ pc = "returned"
  /\ passes >= 2
  /\ \E k, l \in 1..Len(snapshot.edges) :
       /\ Dangling(snapshot.nodes, snapshot.edges[k])
       /\ \E id \in {snapshot.edges[k].sourceId, snapshot.edges[k].targetId}
                      \cap IdsOf(snapshot.nodes) : result.pressures[id] > 0
       /\ result.flowRates[snapshot.edges[l].id] # 0

\* some node's pressure change of the pass just run is NaN or infinite
NonFiniteChange ==
  \E id \in DOMAIN pressures :
    ~IsFinite(MathAbs(Minus(pressures[id], previousPressures[id])))

\* C14: when a node's pressure change in a pass is NaN or infinite, the
\* convergence check of that pass does not stop the loop: the next step is
\* iteration++; the invocation still never begins an 11th pass and
\* terminates: until it has returned a step is always possible and every
\* step lowers StepsLeft.
C14_NonFiniteChangeNotConverged ==
  /\ [][(pc = "check" /\ NonFiniteChange)
          => (pc' = "loop" /\ iteration' = iteration + 1)]_vars
  /\ [](passes <= 10)
  /\ [](StepsLeft >= 0)
  /\ [](pc \in {"loop", "propagate", "check"} => ENABLED Next)
  /\ [][(pc \in {"loop", "propagate", "check"}) => (StepsLeft' < StepsLeft)]_vars

\* a network without edges, which a finite input leaves after one pass, has
\* returned after 10 passes whose last change was NaN
C14_Witness ==
  /\ pc = "returned"
  /\ passes = 10
  /\ Len(snapshot.edges) = 0
  /\ \E id \in DOMAIN pressures :
       MathAbs(Minus(pressures[id], previousPressures[id])) = NaN

\* what a tick may change: the pressure of the nodes that are no reservoir
\* and the flowRate of the edges
TickFrame ==
  /\ Len(nodes') = Len(nodes)
  /\ \A i \in 1..Len(nodes) :
       /\ nodes'[i] = [nodes[i] EXCEPT !.pressure = nodes'[i].pressure]
       /\ nodes[i].type = "reservoir" => nodes'[i].pressure = nodes[i].pressure
  /\ Len(edges') = Len(edges)
  /\ \A k \in 1..Len(edges) :
       edges'[k] = [edges[k] EXCEPT !.flowRate = edges'[k].flowRate]
  /\ isSimulationRunning' = isSimulationRunning

\* C15: a tick (the solver, updateFlowRates, updatePressures) changes only
\* the pressure field of non-reservoir nodes and the flowRate field of
\* edges: the node list and the edge list keep their length and order, every
\* id, type, isOpen, sourceId, targetId and diameter, the pressure of every
\* reservoir and isSimulationRunning stay as they are.
C15_TickFrame == [][(gestures' = gestures /\ Tick) => TickFrame]_vars

\* a tick has written pressures and flow rates into a store that holds a
\* closed valve and a pipe of diameter 2
C15_Witness ==
  /\ isSimulationRunning
  /\ \E i \in NonReservoirs(nodes) : nodes[i].pressure > 0
  /\ \E i \in 1..Len(nodes) : IsClosedValve(nodes[i])
  /\ \E k \in 1..Len(edges) : edges[k].flowRate # 0 /\ edges[k].diameter = 2

EdgeIdsOf(es) == {es[k].id : k \in 1..Len(es)}

\* this step adds no node and no edge
NothingAdded ==
  /\ IdsOf(nodes') \subseteq IdsOf(nodes)
  /\ EdgeIdsOf(edges') \subseteq EdgeIdsOf(edges)

\* this step leaves the pressure of every reservoir as it is
ReservoirPressuresKept ==
  \A i \in Reservoirs(nodes) : \A j \in 1..Len(nodes') :
    nodes'[j].id = nodes[i].id => nodes'[j].pressure = nodes[i].pressure

\* this step leaves the diameter of every edge as it is
DiametersKept ==
  \A k \in 1..Len(edges) : \A l \in 1..Len(edges') :
    edges'[l].id = edges[k].id => edges'[l].diameter = edges[k].diameter

\* C16: no step taken while isSimulationRunning is true adds a node, adds
\* an edge, changes a diameter or changes a reservoir pressure, whatever the
\* user did before the simulation was started.
C16_NoEditWhileRunning ==
  [][isSimulationRunning
       => (NothingAdded /\ ReservoirPressuresKept /\ DiametersKept)]_vars

\* the part of C16 the code meets: while the simulation runs no node and no
\* edge is added and no reservoir pressure changes
C16_NoAddWhileRunning ==
  [][isSimulationRunning => (NothingAdded /\ ReservoirPressuresKept)]_vars

\* the lists ns, es hold the pressures and flow rates the solver returns for
\* the network they describe
SettledIn(ns, es) ==
  LET r == calculateFluidDynamics(ns, es)
  IN /\ \A i \in 1..Len(ns) : ns[i].pressure = r.pressures[ns[i].id]
     /\ \A k \in 1..Len(es) : es[k].flowRate = r.flowRates[es[k].id]

\* every edge of es at a closed valve of ns has flowRate 0
ClosedValveEdgesDryIn(ns, es) ==
  \A k \in 1..Len(es) : HasClosedValveEnd(ns, es[k]) => es[k].flowRate = 0

Settled == SettledIn(nodes, edges)

ClosedValveEdgesDry == ClosedValveEdgesDryIn(nodes, edges)

\* C17: while the simulation runs, whenever the store does not hold the
\* solver's output for its network (as after a click that toggled a valve),
\* a tick eventually runs on that network, after which the store holds the
\* solver's output for it and every edge at a closed valve has flowRate 0,
\* unless the user stops the simulation first.
C17_TickFollowsToggle ==
  /\ (isSimulationRunning /\ ~Settled)
       ~> ((Settled /\ ClosedValveEdgesDry) \/ ~isSimulationRunning)
  /\ [][(gestures' = gestures /\ Tick)
          => \A ns \in {nodes'} : \A es \in {edges'} :
               SettledIn(ns, es) /\ ClosedValveEdgesDryIn(ns, es)]_vars

\* a valve has just been closed while the simulation runs: the store still
\* holds the flow the last tick found in a pipe at that valve
C17_Witness ==
  /\ isSimulationRunning
  /\ \E k \in 1..Len(edges) :
       HasClosedValveEnd(nodes, edges[k]) /\ edges[k].flowRate # 0

\* C18: in every state reached from initialState by the editor's operations
\* (adding nodes, connecting two clicked nodes, removeNode, valve toggles,
\* ticks), the sourceId and the targetId of every edge of the store are ids
\* of nodes of the store.
C18_EdgeEndpointsExist ==
  \A k \in 1..Len(edges) : ~Dangling(nodes, edges[k])

\* the part of C18 the code meets: a removeNode step leaves no edge whose
\* source or target is the removed node
C18_RemoveNodeRemovesEdges ==
  [][\A nodeId \in AllNodeIds :
       removeNode(nodeId) =>
         \A k \in 1..Len(edges') :
           edges'[k].sourceId # nodeId /\ edges'[k].targetId # nodeId]_vars

\* the text of the diameter dialog is no number, or a number <= 0 or > 5
DiameterRejected(text) ==
  LET x == ParseFloat(text) IN x = NaN \/ x <= 0 \/ x > 5

\* C19: in every state reached from initialState every edge's diameter d
\* satisfies 0 < d <= 5; an edge a step adds has diameter 1; a submission
\* of the diameter dialog whose text is no number, is <= 0 or is > 5 leaves
\* every edge as it is and leaves the dialog open with an error message.
C19_DiameterDomain ==
  /\ [](\A k \in 1..Len(edges) :
          IsFinite(edges[k].diameter)
            /\ 0 < edges[k].diameter /\ edges[k].diameter <= 5)
  /\ [][\A l \in 1..Len(edges') :
          edges'[l].id \notin EdgeIdsOf(edges) => edges'[l].diameter = 1]_vars
  /\ [][(DiameterDialog_handleSubmit /\ DiameterRejected(diameterText))
          => /\ edges' = edges
             /\ isDiameterDialogOpen' /\ selectedEdgeId' = selectedEdgeId
             /\ diameterError' # "null"]_vars

\* the dialog of a pipe of diameter 1 has rejected "6": it is still open,
\* shows the error and the pipe has kept its diameter
C19_Witness ==
  /\ DiameterDialogShown
  /\ diameterText = "6"
  /\ diameterError = "Maximum diameter is 5 meters"
  /\ \E k \in 1..Len(edges) :
       edges[k].id = selectedEdgeId /\ edges[k].diameter = 1

\* C20: when a pass has run, the pressure of every node is what the body of
\* the propagation forEach computes for it from previousPressures, the copy
\* of the pressures taken when the pass began: no pressure written earlier
\* in the same pass has been read.
C20_JacobiPass ==
  pc = "check" =>
    \A i \in 1..Len(nodes) :
      pressures[nodes[i].id] =
        PropagateNode(nodes, i, nodeConnections, previousPressures)[nodes[i].id]

\* the edges of es that are active and list a neighbour of pressure > 0 for
\* the node id, as indexes of es
PositiveListings(ns, es, id, p) ==
  {k \in 1..Len(es) :
     /\ ActiveEdge(ns, es[k])
     /\ id \in {es[k].sourceId, es[k].targetId}
     /\ p[IF es[k].sourceId = id THEN es[k].targetId ELSE es[k].sourceId] > 0}

\* q is num/den of x, rounded to the nearest unit
IsRounded(q, x, num, den) == Abs(q * den - x * num) * 2 <= den

\* the nodes of pressure > 0 joined to the node id by an active edge
PositiveNeighbours(ns, es, id, p) ==
  {n \in IdsOf(ns) \ {id} :
     /\ p[n] > 0
     /\ \E k \in 1..Len(es) :
          ActiveEdge(ns, es[k]) /\ {es[k].sourceId, es[k].targetId} = {id, n}}

RECURSIVE SumOf(_, _)
SumOf(N, p) ==
  IF N = {} THEN 0
  ELSE LET n == CHOOSE x \in N : TRUE IN p[n] + SumOf(N \ {n}, p)

\* C21: the step of a pass for a non-reservoir node that has an active
\* neighbour whose pressure, read when the step runs, is > 0 assigns the
\* node 0.95 * the maximum of the positive neighbour pressures if it is an
\* open valve and 0.975 * the arithmetic mean of the positive neighbour
\* pressures if it is a junction; neighbours of pressure 0 enter neither the
\* mean nor the maximum, and the step changes no other pressure.
C21_MeanOfNeighbours ==
  [][PropagateStep =>
       \A q \in {pressures'} :
         LET node == nodes[idx]
             N == PositiveNeighbours(nodes, edges, node.id, pressures)
         IN (node.type # "reservoir" /\ N # {}) =>
              /\ node.type = "valve" =>
                   IsRounded(q[node.id],
                             CHOOSE m \in {pressures[n] : n \in N} :
                               \A n \in N : pressures[n] <= m,
                             ValveNum, ValveDen)
              /\ node.type = "junction" =>
                   IsRounded(q[node.id], SumOf(N, pressures),
                             JunctionNum, JunctionDen * Cardinality(N))
              /\ \A id \in DOMAIN q \ {node.id} : q[id] = pressures[id]]_vars

\* the step of a junction joined to a reservoir of 100 bar and to a node of
\* pressure 0 has just run: the junction holds 97.5 bar, the mean of its one
\* positive neighbour
C21_Witness ==
  /\ pc = "propagate"
  /\ idx >= 2
  /\ LET node == nodes[idx - 1]
         N == PositiveNeighbours(nodes, edges, node.id, pressures)
     IN /\ node.type = "junction"
        /\ Cardinality(N) = 1
        /\ \E n \in IdsOf(nodes) \ {node.id} :
             /\ pressures[n] = 0
             /\ \E k \in 1..Len(edges) :
                  /\ ActiveEdge(nodes, edges[k])
                  /\ {edges[k].sourceId, edges[k].targetId} = {node.id, n}
        /\ pressures[node.id] = 975000

\* every closed valve holds the seed value 0 in the solver's map, and in the
\* map returned
ClosedValvesAtZero ==
  pc # "idle" =>
    \A i \in 1..Len(nodes) :
      IsClosedValve(nodes[i]) =>
        /\ pressures[nodes[i].id] = 0
        /\ pc = "returned" => result.pressures[nodes[i].id] = 0

\* C22: when a pass has run, every node that had no active neighbour of
\* pressure > 0 when the pass began holds the pressure it held then; every
\* closed valve holds the seed value 0 in every pass and on return.
C22_NoPositiveNeighbourUnchanged ==
  /\ pc = "check" =>
       \A i \in 1..Len(nodes) :
         PositiveListings(nodes, edges, nodes[i].id, previousPressures) = {}
           => pressures[nodes[i].id] = previousPressures[nodes[i].id]
  /\ ClosedValvesAtZero

\* the part of C22 the code meets: the step of a node that has no active
\* neighbour whose pressure, read when the step runs, is > 0 changes no
\* pressure, and every closed valve holds 0 in every pass and on return
C22_NoPositiveReadUnchanged ==
  /\ [][PropagateStep =>
          (PositiveListings(nodes, edges, nodes[idx].id, pressures) = {}
             => pressures' = pressures)]_vars
  /\ []ClosedValvesAtZero

\* how often x occurs in the list seq
Count(seq, x) == Cardinality({i \in 1..Len(seq) : seq[i] = x})

\* the edges of es that join a and b, whose two ends are nodes of ns and of
\* which neither end is a valve with isOpen = false, as indexes of es
OpenEdgesBetween(ns, es, a, b) ==
  {k \in 1..Len(es) :
     /\ {es[k].sourceId, es[k].targetId} = {a, b}
     /\ \A id \in {a, b} :
          \E i \in 1..Len(ns) :
            /\ ns[i].id = id
            /\ ~(ns[i].type = "valve" /\ ns[i].isOpen = FALSE)}

\* C23: in every pass the neighbour lists are symmetric (b is listed for a
\* as often as a for b), and b is listed for a once for every edge that
\* joins a and b, has both ends among the nodes and has no valve with
\* isOpen = false at either end, and never otherwise; isOpen of a reservoir
\* or a junction does not enter.
C23_Adjacency ==
  pc \in {"propagate", "check"} =>
    /\ DOMAIN nodeConnections = IdsOf(nodes)
    /\ \A a \in IdsOf(nodes) :
         /\ \A k \in 1..Len(nodeConnections[a]) :
              nodeConnections[a][k] \in IdsOf(nodes)
         /\ \A b \in IdsOf(nodes) :
              /\ Count(nodeConnections[a], b) = Count(nodeConnections[b], a)
              /\ Count(nodeConnections[a], b)
                   = Cardinality(OpenEdgesBetween(nodes, edges, a, b))

\* a junction and a reservoir, both with isOpen = false, list each other
\* once for their pipe, and a pipe at a closed valve is listed by neither end
C23_Witness ==
  /\ pc = "check"
  /\ \E i, j, v \in 1..Len(nodes) :
       /\ nodes[i].type = "junction" /\ ~nodes[i].isOpen
       /\ nodes[j].type = "reservoir" /\ ~nodes[j].isOpen
       /\ IsClosedValve(nodes[v])
       /\ Count(nodeConnections[nodes[i].id], nodes[j].id) = 1
       /\ Count(nodeConnections[nodes[j].id], nodes[i].id) = 1
       /\ \E k \in 1..Len(edges) :
            {edges[k].sourceId, edges[k].targetId} = {nodes[i].id, nodes[v].id}
       /\ nodeConnections[nodes[v].id] = <<>>

\* the pass just run changed the pressure of some node by 0.01 bar or more
ChangedByThreshold ==
  \E id \in DOMAIN pressures :
    Abs(pressures[id] - previousPressures[id]) >= ConvergenceThreshold

\* C24: pass k+1 begins if and only if k < 10 and pass k changed the
\* pressure of some node by 0.01 or more: a pass begins only as the first
\* pass or after such a pass, and after such a pass with k < 10 the next
\* step but one begins pass k+1; after the first pass that changed every
\* pressure by less than 0.01 the solver returns at once, with the
\* pressures of that pass and the flow rates computed from them in that
\* pass; after pass 10 it returns whatever the change.
C24_EarlyStop ==
  /\ [][BeginPass =>
          \/ passes = 0
          \/ passes < MAX_ITERATIONS /\ ChangedByThreshold]_vars
  /\ [][(pc = "check" /\ ChangedByThreshold) => pc' = "loop"]_vars
  /\ [][(pc = "loop" /\ passes < MAX_ITERATIONS)
          => (pc' = "propagate" /\ passes' = passes + 1)]_vars
  /\ [][(pc = "loop" /\ passes >= MAX_ITERATIONS) => pc' = "returned"]_vars
  /\ [][(pc = "check" /\ ~ChangedByThreshold)
          => /\ pc' = "returned"
             /\ result'.pressures = pressures
             /\ result'.flowRates = flowRates
             /\ \A k \in 1..Len(edges) :
                  flowRates[edges[k].id]
                    = EdgeFlowRate(nodes, edges[k], pressures)]_vars

\* the solver has returned after its second pass, which changed nothing,
\* with a junction under pressure
C24_Witness ==
  /\ pc = "returned"
  /\ passes = 2
  /\ \E i \in 1..Len(nodes) :
       nodes[i].type = "junction" /\ result.pressures[nodes[i].id] > 0
  /\ \E k \in 1..Len(edges) : result.flowRates[edges[k].id] # 0

\* a step of the interval callback that writes to the store: no action of the
\* user, and nodes or edges change
TickWrites == gestures' = gestures /\ <<nodes, edges>>' # <<nodes, edges>>

\* C25: in every reachable state at most one simulation interval is set and
\* none is set while isSimulationRunning is false; the interval callback
\* writes pressures or flow rates to the store only while the simulation
\* runs and exactly one interval is set, and it runs as one step from an
\* idle solver to an idle solver, so no two of its runs overlap
C25_TickScheduling ==
  /\ [](simulationIntervals \in {0, 1})
  /\ [](~isSimulationRunning => simulationIntervals = 0)
  /\ [][TickWrites => /\ isSimulationRunning
                      /\ simulationIntervals = 1
                      /\ pc = "idle" /\ pc' = "idle"]_vars

\* the simulation was started, a tick wrote pressures, and it was stopped:
\* no interval is left
C25_Witness ==
  /\ ~isSimulationRunning
  /\ simulationIntervals = 0
  /\ \E i \in 1..Len(nodes) :
       nodes[i].type # "reservoir" /\ nodes[i].pressure > 0

\* the largest reservoir pressure of the input, 0 if it has no reservoir
RECURSIVE LargestReservoirPressure(_, _)
LargestReservoirPressure(ns, i) ==
  IF i > Len(ns) THEN 0
  ELSE LET rest == LargestReservoirPressure(ns, i + 1)
       IN IF ns[i].type = "reservoir" /\ ns[i].pressure > rest
          THEN ns[i].pressure ELSE rest

\* x / den to the nearest unit of the fixed-point scale, x >= 0
NearestUnit(x, den) == (2 * x + den) \div (2 * den)

\* C26: when every reservoir pressure is >= 0, after every pass of the live
\* solver (at the convergence test and on return) every node pressure p has
\* 0 <= p <= M, M the largest reservoir pressure; every junction has
\* p <= 0.975 * M and every open valve p <= 0.95 * M, both taken to the
\* nearest unit of the fixed-point scale; when all reservoir pressures are 0,
\* all pressures are 0 and on return all flow rates are 0
C26_PressureBounds ==
  (/\ pc \in {"check", "returned"}
   /\ \A i \in Reservoirs(nodes) : nodes[i].pressure >= 0)
  => \A M \in {LargestReservoirPressure(nodes, 1)} :
       /\ \A i \in 1..Len(nodes) :
            \A p \in {pressures[nodes[i].id]} :
              /\ 0 <= p /\ p <= M
              /\ nodes[i].type = "junction" => p <= NearestUnit(M * 39, 40)
              /\ (nodes[i].type = "valve" /\ nodes[i].isOpen)
                   => p <= NearestUnit(M * 19, 20)
       /\ M = 0 =>
            /\ \A i \in 1..Len(nodes) : pressures[nodes[i].id] = 0
            /\ pc = "returned" =>
                 \A k \in 1..Len(edges) : result.flowRates[edges[k].id] = 0

\* a returned run in which a junction next to the largest reservoir holds
\* exactly 0.975 * M and an open valve exactly 0.95 * M, M > 0
C26_Witness ==
  /\ pc = "returned"
  /\ LargestReservoirPressure(nodes, 1) > 0
  /\ \E i \in 1..Len(nodes) :
       /\ nodes[i].type = "junction"
       /\ pressures[nodes[i].id]
            = NearestUnit(LargestReservoirPressure(nodes, 1) * 39, 40)
  /\ \E i \in 1..Len(nodes) :
       /\ nodes[i].type = "valve" /\ nodes[i].isOpen
       /\ pressures[nodes[i].id]
            = NearestUnit(LargestReservoirPressure(nodes, 1) * 19, 20)

\* ids of the junctions and valves of ns joined to a member of S by a path of
\* active edges that passes through junctions and open valves only
RECURSIVE FedFrom(_, _, _)
FedFrom(ns, es, S) ==
  LET T == S \cup {ns[i].id : i \in
                     {j \in NonReservoirs(ns) :
                        \E k \in 1..Len(es) :
                          /\ ActiveEdge(ns, es[k])
                          /\ \/ /\ es[k].sourceId \in S
                                /\ es[k].targetId = ns[j].id
                             \/ /\ es[k].targetId \in S
                                /\ es[k].sourceId = ns[j].id}}
  IN IF T = S THEN S ELSE FedFrom(ns, es, T)

\* the junctions and open valves fed by a reservoir of pressure > 0
FedNodes(ns, es) ==
  {i \in NonReservoirs(ns) :
     ns[i].id \in FedFrom(ns, es,
       {ns[j].id : j \in {r \in Reservoirs(ns) : ns[r].pressure > 0}})}

\* C27: on return every junction or open valve joined by a path of active
\* edges to a reservoir of pressure > 0 has a returned pressure > 0
C27_PropagationReaches ==
  pc = "returned" =>
    \A i \in FedNodes(snapshot.nodes, snapshot.edges) :
      result.pressures[snapshot.nodes[i].id] > 0

\* the same for inputs whose reservoirs of pressure > 0 all hold more than
\* 1 bar
C27_ReachesAboveOneBar ==
  (/\ pc = "returned"
   /\ \A r \in Reservoirs(snapshot.nodes) :
        snapshot.nodes[r].pressure \in {0} \cup {p \in ReservoirPressures : p > Bar})
  => \A i \in FedNodes(snapshot.nodes, snapshot.edges) :
       result.pressures[snapshot.nodes[i].id] > 0

\* C28: the pressure map returned by the live solver has an entry for every
\* node id of the input and for nothing else, and the flow-rate map an entry
\* for every edge id of the input and for nothing else, edges with a missing
\* endpoint and edges at a closed valve included
C28_TotalOutputMaps ==
  pc = "returned" =>
    /\ DOMAIN result.pressures = IdsOf(snapshot.nodes)
    /\ DOMAIN result.flowRates
         = {snapshot.edges[k].id : k \in 1..Len(snapshot.edges)}

\* a returned run whose input has an edge with a missing endpoint and an
\* edge at a closed valve
C28_Witness ==
  /\ pc = "returned"
  /\ \E k \in 1..Len(snapshot.edges) :
       /\ ~({snapshot.edges[k].sourceId, snapshot.edges[k].targetId}
              \subseteq IdsOf(snapshot.nodes))
       /\ snapshot.edges[k].id \in DOMAIN result.flowRates
  /\ \E k \in 1..Len(snapshot.edges) :
       /\ HasClosedValveEnd(snapshot.nodes, snapshot.edges[k])
       /\ snapshot.edges[k].id \in DOMAIN result.flowRates

\* the two ends of the edge e as an unordered pair
EndsOf(e) == {e.sourceId, e.targetId}

\* C29: from the initial store, after every sequence of actions of the user
\* no edge has sourceId = targetId and no two edges join the same unordered
\* pair of nodes; a step that adds an edge adds one edge, from the selected
\* node to another node that no edge joined to it in either direction, so a
\* click on the selected node or on a node already joined to it adds none
C29_NoSelfLoopsOrParallelPipes ==
  /\ [](\A k \in 1..Len(edges) : edges[k].sourceId # edges[k].targetId)
  /\ [](\A k, l \in 1..Len(edges) :
          k # l => EndsOf(edges[k]) # EndsOf(edges[l]))
  /\ [][Len(edges') > Len(edges) =>
          /\ Len(edges') = Len(edges) + 1
          /\ \A k \in 1..Len(edges) : edges'[k] = edges[k]
          /\ \A e \in {edges'[Len(edges')]} :
               /\ isConnectionMode
               /\ e.sourceId = selectedNodeId
               /\ e.targetId # selectedNodeId
               /\ \A k \in 1..Len(edges) : EndsOf(edges[k]) # EndsOf(e)]_vars

\* connection mode with a node selected that is joined to another node by a
\* pipe drawn by the user from that other node, next to the pipes of the
\* initial store: a click on either node or on the other adds nothing
C29_Witness ==
  /\ isConnectionMode
  /\ selectedNodeId # 0
  /\ Len(edges) > Len(initialEdges)
  /\ \E k \in (Len(initialEdges) + 1)..Len(edges) :
       edges[k].targetId = selectedNodeId

\* the edge list es with sourceId and targetId of its k-th edge swapped
SwapEnds(es, k) ==
  [es EXCEPT ![k] = [@ EXCEPT !.sourceId = es[k].targetId,
                              !.targetId = es[k].sourceId]]

\* C30: swapping sourceId and targetId of one edge of the input, with the
\* order of both lists kept, leaves every pressure the live solver returns
\* as it was, negates the flow rate returned for that edge and leaves the
\* flow rate of every other edge as it was
C30_OrientationAntisymmetry ==
  pc = "returned" =>
    \A k \in 1..Len(snapshot.edges) :
      \A swapped \in {calculateFluidDynamics(snapshot.nodes,
                                             SwapEnds(snapshot.edges, k))} :
        /\ swapped.pressures = result.pressures
        /\ \A l \in 1..Len(snapshot.edges) :
             \A id \in {snapshot.edges[l].id} :
               swapped.flowRates[id] = IF l = k THEN 0 - result.flowRates[id]
                                        ELSE result.flowRates[id]

\* a returned run with an edge of flow rate other than 0 between two
\* non-reservoirs and a second edge of flow rate other than 0
C30_Witness ==
  /\ pc = "returned"
  /\ \E k, l \in 1..Len(snapshot.edges) :
       /\ k # l
       /\ result.flowRates[snapshot.edges[k].id] # 0
       /\ result.flowRates[snapshot.edges[l].id] # 0
       /\ \A i \in 1..Len(snapshot.nodes) :
            snapshot.nodes[i].id \in EndsOf(snapshot.edges[k])
              => snapshot.nodes[i].type # "reservoir"

====
